---------------------------- MODULE Spec2Model ----------------------------
(***************************************************************************)
(* A model of quackgraph: the string interner (quack_core/interner.rs),    *)
(* the backtracking pattern matcher (quack_core/matcher.rs) and the host   *)
(* surface (packages/native/src/lib.rs) over the graph topology index.     *)
(*                                                                         *)
(* Conventions.  Option<T> is a set with at most one element: None is {}   *)
(* and Some(x) is {x}.  A Vec is a sequence; element i of a Rust Vec is    *)
(* element i+1 of the sequence.                                            *)
(***************************************************************************)
EXTENDS Integers, Sequences, FiniteSets, TLC

VARIABLES
    interner,   \* a stand-alone Interner (interner.rs): [map, vec]
    hist,       \* ghost: the names passed to intern so far, in call order
    ret,        \* the last Interner call and what it returned
    bits,       \* the width of the id type the Interner casts to (u32: 32)
    inner,      \* NativeGraph.inner: the GraphIndex
    reply,      \* the last query of the host surface and what it returned
    calls,      \* how many mutating host calls were made
    disk,       \* the snapshot file save_snapshot wrote, if any
    saved,      \* ghost: the index that file was saved from
    result,     \* the last napi::Result a fallible host call returned
    m_pc,       \* where the Matcher is: not built, built, in find_matches
    m_pattern,    \* Matcher.pattern of a running find_matches
    m_start_candidates,   \* the argument of the running find_matches
    cursor,     \* find_matches: the position of its loop over the starts
    frames,     \* the call stack of backtrack, innermost frame last
    m_assignment, \* find_matches: `assignment`
    m_used_nodes, \* find_matches: `used_nodes`
    m_results     \* find_matches: `results`

ivars == <<interner, hist, ret, bits>>

\* the snapshot file and the last Result
svars == <<disk, saved, result>>

\* a running find_matches
mvars == <<m_pc, m_pattern, m_start_candidates, cursor, frames,
           m_assignment, m_used_nodes, m_results>>

gvars == <<inner, reply, calls, svars, mvars>>

vars == <<interner, hist, ret, bits, inner, reply, calls, disk, saved,
          result, m_pc, m_pattern, m_start_candidates, cursor, frames,
          m_assignment, m_used_nodes, m_results>>

-----------------------------------------------------------------------------
(* Bounds *)

\* how many distinct external names the interner specifications draw from
NumNames == 4

\* how many intern calls the ghost history records
MaxInterns == 4

\* how many mutating host calls a behaviour makes
MaxCalls == 3

\* how many node names the graph specifications draw from
MaxNodes == 3

\* how many node names, and mutating calls, the wide specification has
WideNodes == 3

WideCalls == 2

\* how many mutating calls the store specification makes
StoreCalls == 3

\* how many mutating calls the query specification makes, and the largest
\* depth it asks traverse_recursive for
QueryCalls == 2

MaxDepth == 3

\* how many pattern variables, and how many edges, a pattern has at most
MaxVars == 3

MaxPatLen == 3

\* the id width of the reduced-width interner specification (2^SmallBits ids)
SmallBits == 2

\* the width of the id type: `as u32`
U32Bits == 32

\* the width of an edge type id: `type_id: u8`
U8Bits == 8

NameSeq == <<"A", "B", "C", "D", "E", "F", "G", "H", "I", "J">>

FirstNames(n) == {NameSeq[i] : i \in 1..n}

Names == FirstNames(NumNames)

-----------------------------------------------------------------------------
(* Option<T> *)

None == {}

Some(x) == {x}

\* Option::unwrap
unwrap(o) == CHOOSE x \in o : TRUE

-----------------------------------------------------------------------------
(* quack_core/interner.rs *)

\* Interner::new
InternerNew == [map |-> << >>, vec |-> << >>]

\* `n as u32` at width w.  Every integer TLC represents is below 2^31, so
\* a cast to 31 bits or more leaves it unchanged.
CastTo(n, w) == IF w >= 31 THEN n ELSE n % (2 ^ w)

\* HashMap::insert
MapInsert(m, k, v) == [x \in (DOMAIN m) \cup {k} |-> IF x = k THEN v ELSE m[x]]

\* intern without the map lookup: every call appends.
InternAlwaysNew(I, name, w) ==
    LET id == CastTo(Len(I.vec), w)
    IN  [st |-> [map |-> MapInsert(I.map, name, id),
                 vec |-> Append(I.vec, name)],
         id |-> id]

\* intern numbering from 1: the id is the length after the push.
InternOffByOne(I, name, w) ==
    IF name \in DOMAIN I.map
    THEN [st |-> I, id |-> I.map[name]]
    ELSE LET id == CastTo(Len(I.vec) + 1, w)
         IN  [st |-> [map |-> MapInsert(I.map, name, id),
                      vec |-> Append(I.vec, name)],
              id |-> id]

\* Interner::intern with ids of w bits: the state after the call, and the
\* id returned.
InternW(I, name, w) ==
    IF name \in DOMAIN I.map
    THEN [st |-> I, id |-> I.map[name]]
    ELSE LET id == CastTo(Len(I.vec), w)
         IN  [st |-> [map |-> MapInsert(I.map, name, id),
                      vec |-> Append(I.vec, name)],
              id |-> id]

\* Interner::lookup
lookup(I, id) == IF id < Len(I.vec) THEN Some(I.vec[id + 1]) ELSE None

\* Interner::lookup_id
lookup_id(I, name) == IF name \in DOMAIN I.map THEN Some(I.map[name]) ELSE None

\* Interner::len
len(I) == Len(I.vec)

-----------------------------------------------------------------------------
(* Sequence helpers *)

Range(s) == {s[i] : i \in 1..Len(s)}

RECURSIVE FirstSight(_)
\* the distinct elements of h in the order of their first occurrence
FirstSight(h) ==
    IF h = << >> THEN << >>
    ELSE LET front == FirstSight(SubSeq(h, 1, Len(h) - 1))
             last == h[Len(h)]
         IN  IF \E i \in 1..Len(front) : front[i] = last
             THEN front ELSE Append(front, last)

RECURSIVE Flatten(_)
\* the concatenation of a sequence of sequences
Flatten(ss) == IF ss = << >> THEN << >> ELSE Head(ss) \o Flatten(Tail(ss))

-----------------------------------------------------------------------------
(* The graph topology index (GraphIndex).  Its file, quack_core/topology.rs, *)
(* is not among the sources: these definitions follow the specification,    *)
(* sections 3, 4.B and 4.C.                                                 *)

Outgoing == "Outgoing"

Incoming == "Incoming"

\* GraphIndex::new
GraphIndexNew ==
    [nodes |-> InternerNew, types |-> InternerNew, deleted |-> << >>,
     outgoing |-> << >>, incoming |-> << >>]

\* an edge record of an adjacency list (section 3)
EdgeRecord(peer, type_id, vf, vt) ==
    [peer |-> peer, type_id |-> type_id, valid_from |-> vf, valid_to |-> vt,
     deleted |-> FALSE]

\* GraphIndex::lookup_id: a non-mutating query of the node interner
index_lookup_id(G, id) == lookup_id(G.nodes, id)

\* GraphIndex::lookup_str
lookup_str(G, uid) == lookup(G.nodes, uid)

\* GraphIndex::get_type_id: a non-mutating query of the type interner
get_type_id(G, name) == lookup_id(G.types, name)

\* GraphIndex::is_node_deleted
is_node_deleted(G, id) == id < Len(G.deleted) /\ G.deleted[id + 1]

\* GraphIndex::get_or_create_node: interns, clears `deleted` if set
get_or_create_node(G, ext) ==
    LET r == InternW(G.nodes, ext, U32Bits)
    IN  IF r.id < Len(G.deleted)
        THEN [g |-> [G EXCEPT !.deleted[r.id + 1] = FALSE], id |-> r.id]
        ELSE [g |-> [G EXCEPT !.nodes = r.st,
                              !.deleted = Append(@, FALSE),
                              !.outgoing = Append(@, << >>),
                              !.incoming = Append(@, << >>)],
              id |-> r.id]

\* GraphIndex::add_edge: interns all three, appends a record in both
\* directions, does not dedup
GraphIndex_add_edge(G, src, tgt, type, vf, vt) ==
    LET a == get_or_create_node(G, src)
        b == get_or_create_node(a.g, tgt)
        ty == InternW(b.g.types, type, U8Bits)
    IN  [b.g EXCEPT !.types = ty.st,
                    !.outgoing[a.id + 1] = Append(@, EdgeRecord(b.id, ty.id, vf, vt)),
                    !.incoming[b.id + 1] = Append(@, EdgeRecord(a.id, ty.id, vf, vt))]

\* GraphIndex::remove_node: sets the tombstone of a known node, leaves its
\* edges in place
GraphIndex_remove_node(G, ext) ==
    LET id == index_lookup_id(G, ext)
    IN  IF id = None THEN G ELSE [G EXCEPT !.deleted[unwrap(id) + 1] = TRUE]

\* the records of `list` with (peer, type_id) tombstoned
Tombstone(list, peer, type_id) ==
    [i \in 1..Len(list) |->
        IF list[i].peer = peer /\ list[i].type_id = type_id
        THEN [list[i] EXCEPT !.deleted = TRUE] ELSE list[i]]

\* remove_edge that tombstones the Outgoing records only
RemoveEdgeOutgoingOnly(G, src, tgt, type) ==
    LET s == lookup_id(G.nodes, src)
        d == lookup_id(G.nodes, tgt)
        ty == lookup_id(G.types, type)
    IN  IF s = None \/ d = None \/ ty = None THEN G
        ELSE [G EXCEPT !.outgoing[unwrap(s) + 1] =
                           Tombstone(@, unwrap(d), unwrap(ty))]

\* GraphIndex::remove_edge: tombstones every record of the triple, in both
\* directions
GraphIndex_remove_edge(G, src, tgt, type) ==
    LET s == index_lookup_id(G, src)
        d == index_lookup_id(G, tgt)
        ty == get_type_id(G, type)
    IN  IF s = None \/ d = None \/ ty = None THEN G
        ELSE LET u == unwrap(s)
                 v == unwrap(d)
                 k == unwrap(ty)
                 out == [G EXCEPT !.outgoing[u + 1] = Tombstone(@, v, k)]
             IN  [out EXCEPT !.incoming[v + 1] = Tombstone(@, u, k)]

\* Option<i64> ordering: None before Some
OptLess(a, b) ==
    \/ a = None /\ b # None
    \/ a # None /\ b # None /\ unwrap(a) < unwrap(b)

\* the order compact sorts by: (type_id, peer, valid_from, valid_to)
RecLess(a, b) ==
    \/ a.type_id < b.type_id
    \/ a.type_id = b.type_id /\ a.peer < b.peer
    \/ a.type_id = b.type_id /\ a.peer = b.peer
          /\ OptLess(a.valid_from, b.valid_from)
    \/ a.type_id = b.type_id /\ a.peer = b.peer
          /\ a.valid_from = b.valid_from /\ OptLess(a.valid_to, b.valid_to)

RECURSIVE SortDedup(_)
\* `list` sorted by RecLess, adjacent identical records merged
SortDedup(list) ==
    IF list = << >> THEN << >>
    ELSE LET rest == SortDedup(Tail(list))
             x == Head(list)
             lo == SelectSeq(rest, LAMBDA r : RecLess(r, x))
             hi == SelectSeq(rest, LAMBDA r : RecLess(x, r))
         IN  lo \o <<x>> \o hi

\* GraphIndex::compact: every list loses its tombstoned records and the
\* records incident to a tombstoned node (section 3, invariant 1: tombstones
\* are mirrored, so the record on the tombstoned node's own list goes with
\* its mirror), then is sorted and deduplicated
GraphIndex_compact(G) ==
    LET Keep(n, list) ==
            SelectSeq(list, LAMBDA r : /\ ~r.deleted
                                       /\ ~G.deleted[r.peer + 1]
                                       /\ ~G.deleted[n])
        Lists(adj) == [n \in 1..Len(adj) |-> SortDedup(Keep(n, adj[n]))]
    IN  [G EXCEPT !.outgoing = Lists(@), !.incoming = Lists(@)]

\* the temporal filter of section 4.B; an absent ts admits every interval
Admits(r, ts) ==
    \/ ts = None
    \/ /\ (r.valid_from = None \/ unwrap(r.valid_from) <= unwrap(ts))
       /\ (r.valid_to = None \/ unwrap(ts) < unwrap(r.valid_to))

\* the peers node `id` reaches in direction `dir` through records that are
\* not tombstoned, have a type in `tys` (None: any), pass the temporal
\* filter and point at a node that is not tombstoned, in list order
Neighbors(G, id, tys, dir, ts) ==
    IF id >= Len(G.deleted) THEN << >>
    ELSE LET list == IF dir = Outgoing THEN G.outgoing[id + 1]
                                       ELSE G.incoming[id + 1]
             sel == SelectSeq(list, LAMBDA r :
                        /\ ~r.deleted
                        /\ (tys = None \/ r.type_id \in tys)
                        /\ Admits(r, ts)
                        /\ ~G.deleted[r.peer + 1])
         IN  [i \in 1..Len(sel) |-> sel[i].peer]

\* GraphIndex::get_neighbors(node, type_id, dir): no timestamp is passed
get_neighbors(G, node, type_id, dir) == Neighbors(G, node, Some(type_id), dir, None)

\* the sources that are interned and not tombstoned, as node ids
LiveSources(G, sources) ==
    LET known == SelectSeq(sources, LAMBDA s :
                     /\ index_lookup_id(G, s) # None
                     /\ ~is_node_deleted(G, unwrap(index_lookup_id(G, s))))
    IN  [i \in 1..Len(known) |-> unwrap(index_lookup_id(G, known[i]))]

\* the ids of the nodes one hop from `from`, unique, in order of discovery
Hop(G, from, tys, dir, ts) ==
    FirstSight(Flatten([i \in 1..Len(from) |-> Neighbors(G, from[i], tys, dir, ts)]))

\* GraphIndex::traverse: unique neighbours of the live sources, as
\* external ids; an edge type that was never interned matches nothing
GraphIndex_traverse(G, sources, edge_type, dir, ts) ==
    IF edge_type # None /\ get_type_id(G, unwrap(edge_type)) = None THEN << >>
    ELSE LET tys == IF edge_type = None THEN None
                    ELSE get_type_id(G, unwrap(edge_type))
             ids == Hop(G, LiveSources(G, sources), tys, dir, ts)
         IN  [i \in 1..Len(ids) |-> unwrap(lookup_str(G, ids[i]))]

RECURSIVE Bfs(_, _, _, _, _, _, _, _, _)
\* the nodes first reached at depths d..max from `frontier`, those at depth
\* >= min kept; `visited` holds the sources and every node reached so far
Bfs(G, frontier, visited, d, min, max, tys, dir, ts) ==
    IF d > max \/ frontier = << >> THEN << >>
    ELSE LET reached == Hop(G, frontier, tys, dir, ts)
             fresh == SelectSeq(reached, LAMBDA n : n \notin visited)
             deeper == Bfs(G, fresh, visited \cup Range(fresh), d + 1, min, max,
                           tys, dir, ts)
         IN  IF d >= min THEN fresh \o deeper ELSE deeper

\* GraphIndex::traverse_recursive: breadth-first search with depth bounds
GraphIndex_traverse_recursive(G, sources, edge_type, dir, min, max, ts) ==
    IF edge_type # None /\ get_type_id(G, unwrap(edge_type)) = None THEN << >>
    ELSE LET tys == IF edge_type = None THEN None
                    ELSE get_type_id(G, unwrap(edge_type))
             src == FirstSight(LiveSources(G, sources))
             ids == Bfs(G, src, Range(src), 1, min, max, tys, dir, ts)
         IN  [i \in 1..Len(ids) |-> unwrap(lookup_str(G, ids[i]))]

\* GraphIndex::node_count
node_count(G) == len(G.nodes)

\* GraphIndex::edge_count: the logical edges, one per Outgoing record
edge_count(G) == Len(Flatten(G.outgoing))

\* one row of a columnar batch (section 6); timestamps are microseconds
BatchRow(source_id, target_id, edge_type, valid_from, valid_to) ==
    [source_id |-> source_id, target_id |-> target_id, edge_type |-> edge_type,
     valid_from |-> valid_from, valid_to |-> valid_to]

RECURSIVE AddRows(_, _)
\* add_edge for every row, in row order
AddRows(G, rows) ==
    IF rows = << >> THEN G
    ELSE LET r == Head(rows)
         IN  AddRows(GraphIndex_add_edge(G, r.source_id, r.target_id, r.edge_type,
                                         r.valid_from, r.valid_to),
                     Tail(rows))

\* GraphIndex::add_arrow_batch: a batch that does not have the schema of
\* section 6 is a DecodeError and adds nothing; any other has the effect of
\* add_edge on each row
add_arrow_batch(G, batch) ==
    IF ~batch.schema_ok THEN [g |-> G, err |-> Some("DecodeError")]
    ELSE [g |-> AddRows(G, batch.rows), err |-> None]

\* the snapshot format this build writes, and an older one
SnapshotVersion == "v1"

OldVersion == "v0"

\* the Interner whose vec is `vec`: the map is rebuilt from the positions
InternerFromVec(vec) ==
    [map |-> [name \in Range(vec) |->
                 (CHOOSE i \in 1..Len(vec) : vec[i] = name) - 1],
     vec |-> vec]

\* GraphIndex::save_to_file, the bytes written: both interners' strings in
\* id order, the deletion flags and every adjacency record (section 4.E)
save_to_file(G) ==
    [decodes |-> TRUE, version |-> SnapshotVersion,
     nodes |-> G.nodes.vec, types |-> G.types.vec, deleted |-> G.deleted,
     outgoing |-> G.outgoing, incoming |-> G.incoming]

\* GraphIndex::load_from_file on the file found at the path (None: there is
\* no readable file): the index, or the error of section 7
load_from_file(file) ==
    IF file = None THEN [g |-> GraphIndexNew, err |-> Some("IoError")]
    ELSE LET f == unwrap(file)
         IN  IF ~f.decodes
             THEN [g |-> GraphIndexNew, err |-> Some("DecodeError")]
             ELSE IF f.version # SnapshotVersion
             THEN [g |-> GraphIndexNew, err |-> Some("SnapshotVersionMismatch")]
             ELSE [g |-> [nodes |-> InternerFromVec(f.nodes),
                          types |-> InternerFromVec(f.types),
                          deleted |-> f.deleted,
                          outgoing |-> f.outgoing, incoming |-> f.incoming],
                   err |-> None]

-----------------------------------------------------------------------------
(* quack_core/matcher.rs *)

\* struct PatternEdge
PatternEdge(src_var, tgt_var, type_id, direction) ==
    [src_var |-> src_var, tgt_var |-> tgt_var, type_id |-> type_id,
     direction |-> direction]

RECURSIVE MaxVar(_)
\* Matcher::new, the fold over the pattern: max_var starts at 0
MaxVar(pattern) ==
    IF pattern = << >> THEN 0
    ELSE LET m == MaxVar(SubSeq(pattern, 1, Len(pattern) - 1))
             e == pattern[Len(pattern)]
             m1 == IF e.src_var > m THEN e.src_var ELSE m
         IN  IF e.tgt_var > m1 THEN e.tgt_var ELSE m1

\* Matcher::new: num_vars
MatcherNew(pattern) == MaxVar(pattern) + 1

\* intersect that keeps the candidates it has and ignores the new list
intersectKeepCurrent(current, next) ==
    IF current = None THEN Some(next) ELSE current

\* Matcher::intersect
intersect(current, next) ==
    IF current = None THEN Some(next)
    ELSE Some(SelectSeq(unwrap(current), LAMBDA id : id \in Range(next)))

RECURSIVE ConstrainFree(_, _, _, _, _, _)
\* the loop of backtrack with every node as a candidate for a variable that
\* no edge constrains
ConstrainFree(G, pattern, i, current_var, assignment, candidates) ==
    IF i > Len(pattern)
    THEN [returned |-> FALSE,
          candidates |-> IF candidates = None
                         THEN Some([n \in 1..Len(G.deleted) |-> n - 1])
                         ELSE candidates]
    ELSE LET edge == pattern[i]
             known == IF edge.src_var < current_var /\ edge.tgt_var = current_var
                      THEN Some(<<edge.src_var, Outgoing>>)
                      ELSE IF edge.src_var = current_var /\ edge.tgt_var < current_var
                      THEN Some(<<edge.tgt_var, Incoming>>)
                      ELSE None
         IN  IF known = None
             THEN ConstrainFree(G, pattern, i + 1, current_var, assignment, candidates)
             ELSE LET k == unwrap(known)
                      c == intersect(candidates,
                                     get_neighbors(G, unwrap(assignment[k[1] + 1]),
                                                   edge.type_id, k[2]))
                  IN  IF unwrap(c) = << >>
                      THEN [returned |-> TRUE, candidates |-> c]
                      ELSE ConstrainFree(G, pattern, i + 1, current_var, assignment, c)

RECURSIVE Constrain(_, _, _, _, _, _)
\* Matcher::backtrack, the loop over the pattern from edge i on: whether it
\* returned early on an empty candidate list, and the candidates.  The
\* branch is chosen by the variable indices alone; edge.direction is not
\* read.
Constrain(G, pattern, i, current_var, assignment, candidates) ==
    IF i > Len(pattern) THEN [returned |-> FALSE, candidates |-> candidates]
    ELSE LET edge == pattern[i]
         IN  IF edge.src_var < current_var /\ edge.tgt_var = current_var
             THEN LET known_node == unwrap(assignment[edge.src_var + 1])
                      neighbors == get_neighbors(G, known_node, edge.type_id, Outgoing)
                      c == intersect(candidates, neighbors)
                  IN  IF unwrap(c) = << >>
                      THEN [returned |-> TRUE, candidates |-> c]
                      ELSE Constrain(G, pattern, i + 1, current_var, assignment, c)
             ELSE IF edge.src_var = current_var /\ edge.tgt_var < current_var
             THEN LET known_node == unwrap(assignment[edge.tgt_var + 1])
                      neighbors == get_neighbors(G, known_node, edge.type_id, Incoming)
                      c == intersect(candidates, neighbors)
                  IN  IF unwrap(c) = << >>
                      THEN [returned |-> TRUE, candidates |-> c]
                      ELSE Constrain(G, pattern, i + 1, current_var, assignment, c)
             ELSE Constrain(G, pattern, i + 1, current_var, assignment, candidates)

\* the candidate test without the used_nodes lookup
AlwaysUnused(used_nodes, cand) == TRUE

\* Matcher::backtrack: `!used_nodes.contains(&cand)`
Unused(used_nodes, cand) == cand \notin used_nodes

RECURSIVE backtrack(_, _, _, _, _, _)
\* Matcher::backtrack: the rows pushed to `results` by the call.  The call
\* leaves assignment and used_nodes as it found them, so they are passed by
\* value.
backtrack(G, pattern, num_vars, current_var, assignment, used_nodes) ==
    IF current_var = num_vars
    THEN << [i \in 1..num_vars |-> unwrap(assignment[i])] >>
    ELSE LET c == Constrain(G, pattern, 1, current_var, assignment, None)
         IN  IF c.returned \/ c.candidates = None THEN << >>
             ELSE LET cands == unwrap(c.candidates)
                  IN  Flatten([k \in 1..Len(cands) |->
                          IF Unused(used_nodes, cands[k])
                          THEN backtrack(G, pattern, num_vars, current_var + 1,
                                         [assignment EXCEPT
                                              ![current_var + 1] = Some(cands[k])],
                                         used_nodes \cup {cands[k]})
                          ELSE << >>])

\* a start loop that skips nothing
StartAlwaysTaken(G, start_node) == TRUE

\* Matcher::find_matches: a tombstoned start node is skipped
StartTaken(G, start_node) == ~is_node_deleted(G, start_node)

\* Matcher::find_matches(start_candidates): the results, in order.  The
\* method has no timestamp parameter.
find_matches(G, pattern, num_vars, start_candidates) ==
    LET assignment == [i \in 1..num_vars |-> None]
    IN  Flatten([k \in 1..Len(start_candidates) |->
            IF StartTaken(G, start_candidates[k])
            THEN backtrack(G, pattern, num_vars, 1,
                           [assignment EXCEPT ![1] = Some(start_candidates[k])],
                           {start_candidates[k]})
            ELSE << >>])

-----------------------------------------------------------------------------
(* packages/native/src/lib.rs *)

\* struct JsPatternEdge; direction is an Option<String>
JsPatternEdge(src_var, tgt_var, edge_type, direction) ==
    [src_var |-> src_var, tgt_var |-> tgt_var, edge_type |-> edge_type,
     direction |-> direction]

\* the direction argument of a query: "in" or "IN" is Incoming, anything
\* else, and an absent one, Outgoing
ParseDirection(direction) ==
    IF direction = Some("in") \/ direction = Some("IN") THEN Incoming ELSE Outgoing

\* add_edge: `(t * 1000.0) as i64`, milliseconds to microseconds
MillisToMicros(t) == IF t = None THEN None ELSE Some(unwrap(t) * 1000)

\* match_pattern, the conversion of one pattern edge of a known type
CorePatternEdge(G, p) ==
    PatternEdge(p.src_var, p.tgt_var, unwrap(get_type_id(G, p.edge_type)),
                ParseDirection(p.direction))

\* match_pattern: start_ids.filter_map(lookup_id)
StartCandidates(G, start_ids) ==
    LET known == SelectSeq(start_ids, LAMBDA id : index_lookup_id(G, id) # None)
    IN  [i \in 1..Len(known) |-> unwrap(index_lookup_id(G, known[i]))]

\* match_pattern: row.filter_map(lookup_str)
RowStrings(G, row) ==
    LET known == SelectSeq(row, LAMBDA uid : lookup_str(G, uid) # None)
    IN  [i \in 1..Len(known) |-> unwrap(lookup_str(G, known[i]))]

\* match_pattern that drops a pattern edge of unknown type and goes on
match_pattern_skipping(G, start_ids, pattern, as_of) ==
    LET typed == SelectSeq(pattern, LAMBDA p : get_type_id(G, p.edge_type) # None)
        core_pattern == [i \in 1..Len(typed) |-> CorePatternEdge(G, typed[i])]
        start_candidates == StartCandidates(G, start_ids)
    IN  IF start_candidates = << >> THEN << >>
        ELSE LET raw_results == find_matches(G, core_pattern,
                                             MatcherNew(core_pattern),
                                             start_candidates)
             IN  [i \in 1..Len(raw_results) |-> RowStrings(G, raw_results[i])]

\* NativeGraph::match_pattern.  `ts` is computed from as_of and handed to
\* find_matches, whose definition takes the start candidates only.
match_pattern(G, start_ids, pattern, as_of) ==
    IF \E i \in 1..Len(pattern) : get_type_id(G, pattern[i].edge_type) = None
    THEN << >>
    ELSE LET core_pattern == [i \in 1..Len(pattern) |->
                                  CorePatternEdge(G, pattern[i])]
             start_candidates == StartCandidates(G, start_ids)
         IN  IF start_candidates = << >> THEN << >>
             ELSE LET ts == as_of
                      raw_results == find_matches(G, core_pattern,
                                                  MatcherNew(core_pattern),
                                                  start_candidates)
                  IN  [i \in 1..Len(raw_results) |-> RowStrings(G, raw_results[i])]

-----------------------------------------------------------------------------
(* The Interner as a state machine: one action per method *)

NoRet == [op |-> "none", name |-> None, id |-> None, out |-> None, n |-> None]

NoReply ==
    [op |-> "none", sources |-> << >>, pattern |-> << >>, edge_type |-> None,
     direction |-> None, min_depth |-> None, max_depth |-> None,
     as_of |-> None, rows |-> << >>, index |-> GraphIndexNew]

\* no fallible call was made yet
NoResult == [op |-> "none", err |-> None, path |-> None, at |-> 0]

InitGraph ==
    /\ inner = GraphIndexNew
    /\ reply = NoReply
    /\ calls = 0

\* no snapshot file, no Result
InitDisk ==
    /\ disk = None
    /\ saved = GraphIndexNew
    /\ result = NoResult

\* no find_matches is running
MatcherIdle ==
    /\ m_pc = "none"
    /\ m_pattern = << >>
    /\ m_start_candidates = << >>
    /\ cursor = 0
    /\ frames = << >>
    /\ m_assignment = << >>
    /\ m_used_nodes = {}
    /\ m_results = << >>

InitInterner(w) ==
    /\ interner = InternerNew
    /\ hist = << >>
    /\ ret = NoRet
    /\ bits = w
    /\ InitGraph
    /\ InitDisk
    /\ MatcherIdle

Intern(name, cap) ==
    /\ Len(hist) < cap
    /\ LET r == InternW(interner, name, bits)
       IN  /\ interner' = r.st
           /\ ret' = [NoRet EXCEPT !.op = "intern", !.name = Some(name),
                                   !.id = Some(r.id)]
    /\ hist' = Append(hist, name)
    /\ UNCHANGED <<bits, gvars>>

Lookup(id) ==
    /\ ret' = [NoRet EXCEPT !.op = "lookup", !.id = Some(id),
                            !.out = lookup(interner, id)]
    /\ UNCHANGED <<interner, hist, bits, gvars>>

LookupId(name) ==
    /\ ret' = [NoRet EXCEPT !.op = "lookup_id", !.name = Some(name),
                            !.out = lookup_id(interner, name)]
    /\ UNCHANGED <<interner, hist, bits, gvars>>

LenCall ==
    /\ ret' = [NoRet EXCEPT !.op = "len", !.n = Some(len(interner))]
    /\ UNCHANGED <<interner, hist, bits, gvars>>

NextInterner(names, cap) ==
    \/ \E s \in names : Intern(s, cap)
    \/ \E id \in 0..cap : Lookup(id)
    \/ \E s \in names : LookupId(s)
    \/ LenCall

\* The Interner with u32 ids.
InitU32 == InitInterner(U32Bits)

NextU32 == NextInterner(Names, MaxInterns)

SpecInterner == InitU32 /\ [][NextU32]_vars

\* The Interner with ids of SmallBits bits and one name more than there are
\* ids, so that the id domain is exhausted.
OverflowNames == FirstNames(2 ^ SmallBits + 1)

InitSmall == InitInterner(SmallBits)

NextSmall == NextInterner(OverflowNames, 2 ^ SmallBits + 1)

SpecOverflow == InitSmall /\ [][NextSmall]_vars

-----------------------------------------------------------------------------
(* Inputs of the host calls *)

NodeNames == FirstNames(MaxNodes)

\* every node name, in name order
AllNames == [i \in 1..MaxNodes |-> NameSeq[i]]

TypeSeq == <<"t", "u">>

DirSeq == <<None, Some("in")>>

\* an unbounded interval, and [1 ms, 2 ms)
Intervals(n) ==
    {[vf |-> None, vt |-> None]} \cup
    (IF n > 1 THEN {[vf |-> Some(1), vt |-> Some(2)]} ELSE {})

\* the pattern edges over variables 0..nv-1 with the first nt edge types and
\* the first nd directions, in lexicographic order
Alphabet(nv, nt, nd) ==
    [i \in 1..(nv * nv * nt * nd) |->
        LET k == i - 1
        IN  JsPatternEdge(k \div (nv * nt * nd), (k \div (nt * nd)) % nv,
                          TypeSeq[((k \div nd) % nt) + 1], DirSeq[(k % nd) + 1])]

Increasing(n, N) ==
    {f \in [1..n -> 1..N] : \A j \in 1..(n - 1) : f[j] < f[j + 1]}

\* the patterns of 1..maxlen distinct edges of alpha, listed in alpha's order
Patterns(alpha, maxlen) ==
    UNION {{[j \in 1..n |-> alpha[f[j]]] : f \in Increasing(n, Len(alpha))} :
             n \in 1..maxlen}

SelfEdge(p) == \E i \in 1..Len(p) : p[i].src_var = p[i].tgt_var

\* Spec: patterns of type "t" and default direction over variables
\* 0..MaxVars-1; those of full length have no edge from a variable to itself
MatchPatterns ==
    {p \in Patterns(Alphabet(MaxVars, 1, 1), MaxPatLen) :
        Len(p) < MaxPatLen \/ ~SelfEdge(p)}

MatchStarts == {<<NameSeq[1]>>, AllNames}

TraverseSources == {<<NameSeq[1]>>, <<NameSeq[2], NameSeq[1]>>}

Depths == {[min |-> None, max |-> None], [min |-> Some(1), max |-> Some(2)],
           [min |-> Some(2), max |-> Some(2)]}

\* SpecWide: single-edge patterns between the variables 0 and 1, both edge
\* types, both directions
WidePatterns == {p \in Patterns(Alphabet(2, 2, 2), 1) : ~SelfEdge(p)}

WideNames == FirstNames(WideNodes)

WideStarts == {<< >>, <<NameSeq[1]>>, <<NameSeq[2]>>, <<NameSeq[3], NameSeq[1]>>}

AsOfs == {None, Some(1500), Some(2500)}

-----------------------------------------------------------------------------
(* The host surface (NativeGraph) as a state machine: one action per method. *)
(* A mutating call is made when no reply is pending; a query leaves its      *)
(* reply, which the host takes before its next call.                         *)

\* NativeGraph::add_node
AddNode(id, cap) ==
    /\ reply.op = "none" /\ calls < cap
    /\ inner' = get_or_create_node(inner, id).g
    /\ calls' = calls + 1
    /\ UNCHANGED <<reply, ivars, svars, mvars>>

\* NativeGraph::add_edge: timestamps arrive in milliseconds
AddEdge(source, target, edge_type, valid_from, valid_to, cap) ==
    /\ reply.op = "none" /\ calls < cap
    /\ inner' = GraphIndex_add_edge(inner, source, target, edge_type,
                                    MillisToMicros(valid_from),
                                    MillisToMicros(valid_to))
    /\ calls' = calls + 1
    /\ UNCHANGED <<reply, ivars, svars, mvars>>

\* NativeGraph::remove_node
RemoveNode(id, cap) ==
    /\ reply.op = "none" /\ calls < cap
    /\ inner' = GraphIndex_remove_node(inner, id)
    /\ calls' = calls + 1
    /\ UNCHANGED <<reply, ivars, svars, mvars>>

\* NativeGraph::remove_edge
RemoveEdge(source, target, edge_type, cap) ==
    /\ reply.op = "none" /\ calls < cap
    /\ inner' = GraphIndex_remove_edge(inner, source, target, edge_type)
    /\ calls' = calls + 1
    /\ UNCHANGED <<reply, ivars, svars, mvars>>

\* compact that returns without calling GraphIndex::compact
CompactSkipped(cap) ==
    /\ reply.op = "none" /\ calls < cap
    /\ calls' = calls + 1
    /\ UNCHANGED <<inner, reply, ivars, svars, mvars>>

\* NativeGraph::compact
Compact(cap) ==
    /\ reply.op = "none" /\ calls < cap
    /\ inner' = GraphIndex_compact(inner)
    /\ calls' = calls + 1
    /\ UNCHANGED <<reply, ivars, svars, mvars>>

\* traverse that takes as_of for milliseconds, as add_edge takes its
\* timestamps
TraverseMillis(sources, edge_type, direction, as_of) ==
    /\ reply.op = "none"
    /\ reply' = [NoReply EXCEPT
                    !.op = "traverse", !.sources = sources, !.index = inner,
                    !.edge_type = edge_type, !.direction = direction,
                    !.as_of = as_of,
                    !.rows = GraphIndex_traverse(inner, sources, edge_type,
                                 ParseDirection(direction),
                                 MillisToMicros(as_of))]
    /\ UNCHANGED <<inner, calls, ivars, svars, mvars>>

\* NativeGraph::traverse (&self)
Traverse(sources, edge_type, direction, as_of) ==
    /\ reply.op = "none"
    /\ reply' = [NoReply EXCEPT
                    !.op = "traverse", !.sources = sources, !.index = inner,
                    !.edge_type = edge_type, !.direction = direction,
                    !.as_of = as_of,
                    !.rows = GraphIndex_traverse(inner, sources, edge_type,
                                 ParseDirection(direction), as_of)]
    /\ UNCHANGED <<inner, calls, ivars, svars, mvars>>

\* traverse_recursive that passes 1 for the lower depth bound
TraverseRecursiveFromOne(sources, edge_type, direction, min_depth, max_depth, as_of) ==
    /\ reply.op = "none"
    /\ LET max == IF max_depth = None THEN 1 ELSE unwrap(max_depth)
       IN  reply' = [NoReply EXCEPT
                        !.op = "traverse_recursive", !.sources = sources,
                        !.index = inner,
                        !.edge_type = edge_type, !.direction = direction,
                        !.min_depth = min_depth, !.max_depth = max_depth,
                        !.as_of = as_of,
                        !.rows = GraphIndex_traverse_recursive(inner, sources,
                                     edge_type, ParseDirection(direction),
                                     1, max, as_of)]
    /\ UNCHANGED <<inner, calls, ivars, svars, mvars>>

\* NativeGraph::traverse_recursive (&self): absent depths default to 1
TraverseRecursive(sources, edge_type, direction, min_depth, max_depth, as_of) ==
    /\ reply.op = "none"
    /\ LET min == IF min_depth = None THEN 1 ELSE unwrap(min_depth)
           max == IF max_depth = None THEN 1 ELSE unwrap(max_depth)
       IN  reply' = [NoReply EXCEPT
                        !.op = "traverse_recursive", !.sources = sources,
                        !.index = inner,
                        !.edge_type = edge_type, !.direction = direction,
                        !.min_depth = min_depth, !.max_depth = max_depth,
                        !.as_of = as_of,
                        !.rows = GraphIndex_traverse_recursive(inner, sources,
                                     edge_type, ParseDirection(direction),
                                     min, max, as_of)]
    /\ UNCHANGED <<inner, calls, ivars, svars, mvars>>

\* NativeGraph::match_pattern (&self)
MatchPattern(start_ids, pattern, as_of) ==
    /\ reply.op = "none"
    /\ reply' = [NoReply EXCEPT
                    !.op = "match_pattern", !.sources = start_ids,
                    !.index = inner,
                    !.pattern = pattern, !.as_of = as_of,
                    !.rows = match_pattern(inner, start_ids, pattern, as_of)]
    /\ UNCHANGED <<inner, calls, ivars, svars, mvars>>

\* the host takes the reply
Return ==
    /\ reply.op # "none"
    /\ reply' = NoReply
    /\ UNCHANGED <<inner, calls, ivars, svars, mvars>>

RECURSIVE IngestBatches(_, _)
\* load_arrow_ipc, the loop over the batches of the stream: a batch the
\* reader fails on, or one add_arrow_batch refuses, ends the call with the
\* error, and the batches before it stay ingested
IngestBatches(G, batches) ==
    IF batches = << >> THEN [g |-> G, err |-> None]
    ELSE LET batch == Head(batches)
         IN  IF ~batch.readable THEN [g |-> G, err |-> Some("ArrowError")]
             ELSE LET r == add_arrow_batch(G, batch)
                  IN  IF r.err # None THEN r
                      ELSE IngestBatches(r.g, Tail(batches))

\* NativeGraph::load_arrow_ipc: StreamReader::try_new fails on a buffer
\* without a stream header, before any batch is read
LoadArrowIpc(buffer, cap) ==
    /\ reply.op = "none" /\ calls < cap
    /\ LET r == IF ~buffer.header_ok
                THEN [g |-> inner, err |-> Some("ArrowError")]
                ELSE IngestBatches(inner, buffer.batches)
       IN  /\ inner' = r.g
           /\ result' = [op |-> "load_arrow_ipc", err |-> r.err,
                         path |-> None, at |-> calls + 1]
    /\ calls' = calls + 1
    /\ UNCHANGED <<reply, disk, saved, ivars, mvars>>

\* the file a path names: the snapshot save_snapshot wrote, no file, a file
\* that is not a snapshot, and a snapshot of an older format
FileAt(path) ==
    IF path = "snap" THEN disk
    ELSE IF path = "missing" THEN None
    ELSE IF path = "garbage"
    THEN Some([save_to_file(GraphIndexNew) EXCEPT !.decodes = FALSE])
    ELSE Some([save_to_file(GraphIndexNew) EXCEPT !.version = OldVersion])

\* NativeGraph::save_snapshot (&self): a path that cannot be written is an
\* IoError and leaves the file system as it was
SaveSnapshot(path) ==
    /\ reply.op = "none"
    /\ IF path = "snap"
       THEN /\ disk' = Some(save_to_file(inner))
            /\ saved' = inner
            /\ result' = [op |-> "save_snapshot", err |-> None,
                          path |-> Some(path), at |-> calls]
       ELSE /\ result' = [op |-> "save_snapshot", err |-> Some("IoError"),
                          path |-> Some(path), at |-> calls]
            /\ UNCHANGED <<disk, saved>>
    /\ UNCHANGED <<inner, reply, calls, ivars, mvars>>

\* load_snapshot that takes whatever load_from_file produced, also on failure
LoadSnapshotUnchecked(path, cap) ==
    /\ reply.op = "none" /\ calls < cap
    /\ LET loaded == load_from_file(FileAt(path))
       IN  /\ inner' = loaded.g
           /\ result' = [op |-> "load_snapshot", err |-> loaded.err,
                         path |-> Some(path), at |-> calls + 1]
    /\ calls' = calls + 1
    /\ UNCHANGED <<reply, disk, saved, ivars, mvars>>

\* load_snapshot that reports success and keeps the index it had
LoadSnapshotKeeping(path, cap) ==
    /\ reply.op = "none" /\ calls < cap
    /\ LET loaded == load_from_file(FileAt(path))
       IN  result' = [op |-> "load_snapshot", err |-> loaded.err,
                      path |-> Some(path), at |-> calls + 1]
    /\ calls' = calls + 1
    /\ UNCHANGED <<inner, reply, disk, saved, ivars, mvars>>

\* NativeGraph::load_snapshot: `?` returns the error before self.inner is
\* assigned
LoadSnapshot(path, cap) ==
    /\ reply.op = "none" /\ calls < cap
    /\ LET loaded == load_from_file(FileAt(path))
       IN  /\ inner' = IF loaded.err # None THEN inner ELSE loaded.g
           /\ result' = [op |-> "load_snapshot", err |-> loaded.err,
                         path |-> Some(path), at |-> calls + 1]
    /\ calls' = calls + 1
    /\ UNCHANGED <<reply, disk, saved, ivars, mvars>>

\* the mutating calls, over the given names, edge types and intervals
Mutate(names, types, ivs, cap) ==
    \/ \E n \in names : AddNode(n, cap)
    \/ \E s, d \in names, ty \in types, iv \in ivs :
          AddEdge(s, d, ty, iv.vf, iv.vt, cap)
    \/ \E n \in names : RemoveNode(n, cap)
    \/ \E s, d \in names, ty \in types : RemoveEdge(s, d, ty, cap)
    \/ Compact(cap)

Init == InitInterner(U32Bits)

\* The host surface over one edge type and unbounded intervals, with
\* patterns of up to MaxPatLen edges.
Next ==
    \/ Mutate(NodeNames, {TypeSeq[1]}, Intervals(1), MaxCalls)
    \/ \E s \in MatchStarts, p \in MatchPatterns : MatchPattern(s, p, None)
    \/ \E s \in TraverseSources, ty \in {None, Some(TypeSeq[1])}, d \in Range(DirSeq) :
          Traverse(s, ty, d, None)
    \/ \E s \in TraverseSources, d \in Range(DirSeq), dp \in Depths :
          TraverseRecursive(s, None, d, dp.min, dp.max, None)
    \/ Return

Spec == Init /\ [][Next]_vars

\* The host surface over two edge types, bounded and unbounded intervals,
\* both directions and as-of timestamps, with single-edge patterns.
NextWide ==
    \/ Mutate(WideNames, Range(TypeSeq), Intervals(2), WideCalls)
    \/ \E s \in WideStarts, p \in WidePatterns, ts \in AsOfs :
          MatchPattern(s, p, ts)
    \/ \E n \in WideNames, ty \in {None} \cup {Some(x) : x \in Range(TypeSeq)},
          d \in Range(DirSeq), ts \in AsOfs :
          Traverse(<<n>>, ty, d, ts)
    \/ Return

SpecWide == Init /\ [][NextWide]_vars

\* The adjacency store: every mutating call, batch ingestion and snapshots.
StoreRow == BatchRow(NameSeq[1], NameSeq[2], TypeSeq[1], None, None)

GoodBatch(rows) == [readable |-> TRUE, schema_ok |-> TRUE, rows |-> rows]

\* a stream with the same row twice; one whose second batch lacks a
\* column; one whose first batch cannot be read; one without a header
StoreBuffers ==
    {[header_ok |-> TRUE, batches |-> <<GoodBatch(<<StoreRow, StoreRow>>)>>],
     [header_ok |-> TRUE,
      batches |-> <<GoodBatch(<<BatchRow(NameSeq[2], NameSeq[1], TypeSeq[1],
                                         Some(1000), Some(2000))>>),
                    [readable |-> TRUE, schema_ok |-> FALSE, rows |-> << >>]>>],
     [header_ok |-> TRUE,
      batches |-> <<[readable |-> FALSE, schema_ok |-> FALSE, rows |-> << >>]>>],
     [header_ok |-> FALSE, batches |-> << >>]}

SavePaths == {"snap", "readonly"}

LoadPaths == {"snap", "missing", "garbage", "old"}

NextStore ==
    \/ Mutate(NodeNames, {TypeSeq[1]}, Intervals(1), StoreCalls)
    \/ \E buffer \in StoreBuffers : LoadArrowIpc(buffer, StoreCalls)
    \/ \E path \in SavePaths : SaveSnapshot(path)
    \/ \E path \in LoadPaths : LoadSnapshot(path, StoreCalls)

SpecStore == Init /\ [][NextStore]_vars

\* The queries over temporal graphs: the index is filled by batches (whose
\* timestamps are microseconds) and changed by one more mutating call.
Row(s, d, vf, vt) == BatchRow(NameSeq[s], NameSeq[d], TypeSeq[1], vf, vt)

\* section 8, scenario 3: A->B valid [1000, 2000), A->C valid from 1500
TemporalRows == <<Row(1, 2, Some(1000), Some(2000)), Row(1, 3, Some(1500), None)>>

\* section 8, scenario 6: A->B, B->C, A->C
TriangleRows == <<Row(1, 2, None, None), Row(2, 3, None, None), Row(1, 3, None, None)>>

\* the cycle A->B->C->A
CycleRows == <<Row(1, 2, None, None), Row(2, 3, None, None), Row(3, 1, None, None)>>

QueryBuffers ==
    {[header_ok |-> TRUE, batches |-> <<GoodBatch(rows)>>] :
        rows \in {TemporalRows, TriangleRows, CycleRows}}

QuerySources == {<<NameSeq[1]>>, <<NameSeq[2], NameSeq[1]>>}

QueryAsOfs == {None, Some(1200), Some(1800), Some(2500)}

QueryDepths ==
    {[min |-> None, max |-> None], [min |-> Some(1), max |-> Some(2)]}
    \cup {[min |-> Some(d), max |-> Some(d)] : d \in 1..MaxDepth}

QueryStarts == {<<NameSeq[1]>>, <<NameSeq[1], NameSeq[1]>>}

NextQuery ==
    \/ Mutate(NodeNames, {TypeSeq[1]}, Intervals(2), QueryCalls)
    \/ \E buffer \in QueryBuffers : LoadArrowIpc(buffer, QueryCalls)
    \/ \E src \in QuerySources, ty \in {None, Some(TypeSeq[1])},
          d \in Range(DirSeq), ts \in QueryAsOfs :
          Traverse(src, ty, d, ts)
    \/ \E src \in QuerySources, d \in Range(DirSeq), dp \in QueryDepths,
          ts \in {None, Some(1800)} :
          TraverseRecursive(src, Some(TypeSeq[1]), d, dp.min, dp.max, ts)
    \/ \E st \in QueryStarts :
          MatchPattern(st, <<JsPatternEdge(0, 1, TypeSeq[1], None)>>, None)
    \/ Return

SpecQuery == Init /\ [][NextQuery]_vars

-----------------------------------------------------------------------------
(* The Matcher step by step: find_matches and the frames of backtrack.  A   *)
(* frame is one call of backtrack; it is pushed in state "Unbound" and       *)
(* popped when the call returns.                                             *)

\* the frame of a call backtrack(current_var, ..); `entry_assignment` and
\* `entry_used` are ghosts: the two borrowed locals as the call found them
Frame(current_var, a, used) ==
    [var |-> current_var, state |-> "Unbound", cands |-> None, next |-> 0,
     entry_assignment |-> a, entry_used |-> used]

Top == frames[Len(frames)]

Pop == SubSeq(frames, 1, Len(frames) - 1)

\* the top frame changed to f
SetTop(f) == [frames EXCEPT ![Len(frames)] = f]

num_vars == MatcherNew(m_pattern)

InBacktrack == m_pc = "called" /\ frames # << >>

\* Matcher::find_matches, lines 39-41: the locals before the loop
FindMatches(starts) ==
    /\ m_pc = "new"
    /\ m_pc' = "loop"
    /\ m_start_candidates' = starts
    /\ cursor' = 1
    /\ m_assignment' = [i \in 1..num_vars |-> None]
    /\ m_used_nodes' = {}
    /\ m_results' = << >>
    /\ UNCHANGED <<m_pattern, frames, inner, reply, calls, ivars, svars>>

\* find_matches, lines 43-51 and 57: the head of the loop over the starts
StartLoop ==
    /\ m_pc = "loop"
    /\ IF cursor > Len(m_start_candidates)
       THEN /\ m_pc' = "returned"
            /\ UNCHANGED <<cursor, frames, m_assignment, m_used_nodes>>
       ELSE LET start_node == m_start_candidates[cursor]
            IN  IF ~StartTaken(inner, start_node)
                THEN /\ cursor' = cursor + 1
                     /\ UNCHANGED <<m_pc, frames, m_assignment, m_used_nodes>>
                ELSE /\ m_assignment' = [m_assignment EXCEPT ![1] = Some(start_node)]
                     /\ m_used_nodes' = m_used_nodes \cup {start_node}
                     /\ frames' = <<Frame(1, m_assignment', m_used_nodes')>>
                     /\ m_pc' = "called"
                     /\ UNCHANGED cursor
    /\ UNCHANGED <<m_pattern, m_start_candidates, m_results, inner, reply,
                   calls, ivars, svars>>

\* find_matches, lines 53-54: backtrack(1, ..) has returned
StartDone ==
    /\ m_pc = "called" /\ frames = << >>
    /\ m_used_nodes' = m_used_nodes \ {m_start_candidates[cursor]}
    /\ m_assignment' = [m_assignment EXCEPT ![1] = None]
    /\ cursor' = cursor + 1
    /\ m_pc' = "loop"
    /\ UNCHANGED <<m_pattern, m_start_candidates, frames, m_results, inner,
                   reply, calls, ivars, svars>>

\* backtrack, lines 67-70: every variable is bound, the row is pushed
Emit ==
    /\ InBacktrack /\ Top.state = "Unbound" /\ Top.var = num_vars
    /\ m_results' = Append(m_results,
                           [i \in 1..num_vars |-> unwrap(m_assignment[i])])
    /\ frames' = Pop
    /\ UNCHANGED <<m_pc, m_pattern, m_start_candidates, cursor, m_assignment,
                   m_used_nodes, inner, reply, calls, ivars, svars>>

\* backtrack, lines 72-87: the loop over the pattern, with its early return
ComputeCandidates ==
    /\ InBacktrack /\ Top.state = "Unbound" /\ Top.var < num_vars
    /\ LET c == Constrain(inner, m_pattern, 1, Top.var, m_assignment, None)
       IN  frames' = IF c.returned THEN Pop
                     ELSE SetTop([Top EXCEPT !.state = "Candidates-computed",
                                             !.cands = c.candidates])
    /\ UNCHANGED <<m_pc, m_pattern, m_start_candidates, cursor, m_assignment,
                   m_used_nodes, m_results, inner, reply, calls, ivars, svars>>

\* backtrack, line 89: `if let Some(cands) = candidates`
BeginIterate ==
    /\ InBacktrack /\ Top.state = "Candidates-computed"
    /\ frames' = IF Top.cands = None THEN Pop
                 ELSE SetTop([Top EXCEPT !.state = "Iterating", !.next = 1])
    /\ UNCHANGED <<m_pc, m_pattern, m_start_candidates, cursor, m_assignment,
                   m_used_nodes, m_results, inner, reply, calls, ivars, svars>>

\* backtrack, lines 90-95: the next candidate; a used one is passed over,
\* any other is bound and backtrack is called for the next variable
NextCandidate ==
    /\ InBacktrack /\ Top.state = "Iterating"
    /\ LET cands == unwrap(Top.cands)
       IN  IF Top.next > Len(cands)
           THEN /\ frames' = Pop
                /\ UNCHANGED <<m_assignment, m_used_nodes>>
           ELSE LET cand == cands[Top.next]
                IN  IF ~Unused(m_used_nodes, cand)
                    THEN /\ frames' = SetTop([Top EXCEPT !.next = @ + 1])
                         /\ UNCHANGED <<m_assignment, m_used_nodes>>
                    ELSE /\ m_assignment' =
                               [m_assignment EXCEPT ![Top.var + 1] = Some(cand)]
                         /\ m_used_nodes' = m_used_nodes \cup {cand}
                         /\ frames' =
                               Append(SetTop([Top EXCEPT !.state = "Bound"]),
                                      Frame(Top.var + 1, m_assignment',
                                            m_used_nodes'))
    /\ UNCHANGED <<m_pc, m_pattern, m_start_candidates, cursor, m_results,
                   inner, reply, calls, ivars, svars>>

\* Unbind that leaves the candidate in used_nodes
UnbindKeepingUsed ==
    /\ InBacktrack /\ Top.state = "Bound"
    /\ m_assignment' = [m_assignment EXCEPT ![Top.var + 1] = None]
    /\ frames' = SetTop([Top EXCEPT !.state = "Backtracked"])
    /\ UNCHANGED <<m_pc, m_pattern, m_start_candidates, cursor, m_results,
                   m_used_nodes, inner, reply, calls, ivars, svars>>

\* backtrack, lines 97-98: the recursive call has returned
Unbind ==
    /\ InBacktrack /\ Top.state = "Bound"
    /\ m_used_nodes' = m_used_nodes \ {unwrap(Top.cands)[Top.next]}
    /\ m_assignment' = [m_assignment EXCEPT ![Top.var + 1] = None]
    /\ frames' = SetTop([Top EXCEPT !.state = "Backtracked"])
    /\ UNCHANGED <<m_pc, m_pattern, m_start_candidates, cursor, m_results,
                   inner, reply, calls, ivars, svars>>

\* backtrack, line 90: the `for` goes on to the candidate after
Continue ==
    /\ InBacktrack /\ Top.state = "Backtracked"
    /\ frames' = SetTop([Top EXCEPT !.state = "Iterating", !.next = @ + 1])
    /\ UNCHANGED <<m_pc, m_pattern, m_start_candidates, cursor, m_assignment,
                   m_used_nodes, m_results, inner, reply, calls, ivars, svars>>

\* the indexes a Matcher is built over: the triangle, the cycle, every edge
\* between three nodes, and A->B twice with B->C; each also with B
\* tombstoned
CompleteRows ==
    <<Row(1, 2, None, None), Row(1, 3, None, None), Row(2, 1, None, None),
      Row(2, 3, None, None), Row(3, 1, None, None), Row(3, 2, None, None)>>

TwiceRows == <<Row(1, 2, None, None), Row(1, 2, None, None), Row(2, 3, None, None)>>

MatcherGraphs ==
    LET built == {AddRows(GraphIndexNew, rows) :
                     rows \in {TriangleRows, CycleRows, CompleteRows, TwiceRows}}
    IN  built \cup {GraphIndex_remove_node(G, NameSeq[2]) : G \in built}

\* the patterns of MatchPatterns with the type id of TypeSeq[1]
CorePatterns ==
    {[i \in 1..Len(p) |-> PatternEdge(p[i].src_var, p[i].tgt_var, 0, Outgoing)] :
        p \in MatchPatterns}

\* start candidates: one node, every node, one node twice
MatcherStarts == {<<0>>, <<0, 1, 2>>, <<1, 1>>}

\* Matcher::new over an index and a pattern
InitMatcher ==
    /\ interner = InternerNew /\ hist = << >> /\ ret = NoRet /\ bits = U32Bits
    /\ reply = NoReply /\ calls = 0
    /\ InitDisk
    /\ inner \in MatcherGraphs
    /\ m_pattern \in CorePatterns
    /\ m_pc = "new"
    /\ m_start_candidates = << >>
    /\ cursor = 0
    /\ frames = << >>
    /\ m_assignment = << >>
    /\ m_used_nodes = {}
    /\ m_results = << >>

NextMatcher ==
    \/ \E starts \in MatcherStarts : FindMatches(starts)
    \/ StartLoop
    \/ StartDone
    \/ Emit
    \/ ComputeCandidates
    \/ BeginIterate
    \/ NextCandidate
    \/ Unbind
    \/ Continue

SpecMatcher == InitMatcher /\ [][NextMatcher]_vars

-----------------------------------------------------------------------------
(* Claims about the matcher and the host surface *)

PatVars(p) == UNION {{p[i].src_var, p[i].tgt_var} : i \in 1..Len(p)}

\* the largest variable index a pattern uses
TopVar(p) == CHOOSE m \in PatVars(p) : \A v \in PatVars(p) : v <= m

\* the connectivity requirement of section 4.D
Connected(p) ==
    \A v \in 1..TopVar(p) : \E i \in 1..Len(p) :
        \/ p[i].src_var = v /\ p[i].tgt_var < v
        \/ p[i].tgt_var = v /\ p[i].src_var < v

AllOutgoing(p) == \A i \in 1..Len(p) : ParseDirection(p[i].direction) = Outgoing

Known(G, name) == index_lookup_id(G, name) # None

NodeId(G, name) == unwrap(index_lookup_id(G, name))

Tombstoned(G, name) == Known(G, name) /\ G.deleted[NodeId(G, name) + 1]

Live(G, name) == Known(G, name) /\ ~Tombstoned(G, name)

\* the index holds a record s --type--> d that is not tombstoned and passes
\* the temporal filter at ts
HasEdge(G, s, d, type, ts) ==
    /\ Known(G, s) /\ Known(G, d) /\ get_type_id(G, type) # None
    /\ \E k \in 1..Len(G.outgoing[NodeId(G, s) + 1]) :
          LET r == G.outgoing[NodeId(G, s) + 1][k]
          IN  /\ r.peer = NodeId(G, d)
              /\ r.type_id = unwrap(get_type_id(G, type))
              /\ ~r.deleted
              /\ Admits(r, ts)

Injective(row) == \A i, j \in 1..Len(row) : i # j => row[i] # row[j]

\* the injective assignments of live nodes to the variables of p, as rows of
\* names, that start at a start candidate and satisfy every edge of p read
\* as src --type--> tgt
Assignments(G, starts, p) ==
    {row \in [1..(TopVar(p) + 1) -> FirstNames(MaxNodes)] :
        /\ row[1] \in Range(starts)
        /\ Injective(row)
        /\ \A i \in 1..Len(row) : Live(G, row[i])
        /\ \A k \in 1..Len(p) :
              HasEdge(G, row[p[k].src_var + 1], row[p[k].tgt_var + 1],
                      p[k].edge_type, None)}

MatchReply == reply.op = "match_pattern"

Triangle ==
    <<JsPatternEdge(0, 1, "t", None), JsPatternEdge(0, 2, "t", None),
      JsPatternEdge(1, 2, "t", None)>>

RowHas(pat, row, k, ts) ==
    HasEdge(inner, row[pat[k].src_var + 1], row[pat[k].tgt_var + 1],
            pat[k].edge_type, ts)

RowHasReversed(pat, row, k, ts) ==
    HasEdge(inner, row[pat[k].tgt_var + 1], row[pat[k].src_var + 1],
            pat[k].edge_type, ts)

\* C2: for every pattern edge (a, b, t, Incoming) and every returned row, an
\* index edge phi(b) --t--> phi(a) exists: the direction field reverses the
\* endpoint that must be the source.
C2_IncomingReverses ==
    MatchReply =>
        \A n \in 1..Len(reply.rows) : \A k \in 1..Len(reply.pattern) :
            ParseDirection(reply.pattern[k].direction) = Incoming
                => RowHasReversed(reply.pattern, reply.rows[n], k, None)

\* an Incoming pattern edge over two variables returned a row
C2_Witness ==
    /\ MatchReply
    /\ reply.rows # << >>
    /\ \E k \in 1..Len(reply.pattern) :
          /\ ParseDirection(reply.pattern[k].direction) = Incoming
          /\ reply.pattern[k].src_var # reply.pattern[k].tgt_var

\* C3: with an as-of timestamp ts, every pattern edge of every returned row
\* is witnessed by an index edge between the two bound nodes that passes the
\* temporal filter at ts.  The edge is looked for in both orientations, so
\* that the direction of the lookup plays no part.
C3_MatchAppliesAsOf ==
    (MatchReply /\ reply.as_of # None) =>
        \A n \in 1..Len(reply.rows) : \A k \in 1..Len(reply.pattern) :
            \/ RowHas(reply.pattern, reply.rows[n], k, reply.as_of)
            \/ RowHasReversed(reply.pattern, reply.rows[n], k, reply.as_of)

\* a match with an as-of timestamp returned a row
C3_Witness ==
    /\ MatchReply
    /\ reply.as_of # None
    /\ reply.rows # << >>
    /\ ~SelfEdge(reply.pattern)

\* the index holds the self-loop A->A of type "t" and no other edge
OnlySelfLoop ==
    /\ HasEdge(inner, "A", "A", "t", None)
    /\ \A s, d \in NodeNames : HasEdge(inner, s, d, "t", None) => (s = "A" /\ d = "A")

\* C4: every returned row is injective, variable 0 included; on the
\* self-loop graph A->A the pattern (0->1, t) with starts [A] has no match.
C4_RowsInjective ==
    MatchReply =>
        /\ \A n \in 1..Len(reply.rows) : Injective(reply.rows[n])
        /\ (/\ OnlySelfLoop
            /\ reply.pattern = <<JsPatternEdge(0, 1, "t", None)>>
            /\ reply.sources = <<"A">>) => reply.rows = << >>

\* the self-loop graph queried with (0->1, t) from [A]
C4_Witness ==
    /\ MatchReply
    /\ OnlySelfLoop
    /\ reply.pattern = <<JsPatternEdge(0, 1, "t", None)>>
    /\ reply.sources = <<"A">>
    /\ reply.rows = << >>

\* C5: a node whose deleted flag is set appears in no traverse or
\* traverse_recursive result and in no row of a match_pattern result.
C5_NoTombstonedNode ==
    /\ reply.op \in {"traverse", "traverse_recursive"} =>
          \A n \in 1..Len(reply.rows) : ~Tombstoned(inner, reply.rows[n])
    /\ MatchReply =>
          \A n \in 1..Len(reply.rows) : \A i \in 1..Len(reply.rows[n]) :
              ~Tombstoned(inner, reply.rows[n][i])

\* the record s --t--> d is physically present and not tombstoned
Residual(s, d) ==
    /\ Known(inner, s) /\ Known(inner, d)
    /\ \E k \in 1..Len(inner.outgoing[NodeId(inner, s) + 1]) :
          LET r == inner.outgoing[NodeId(inner, s) + 1][k]
          IN  r.peer = NodeId(inner, d) /\ ~r.deleted

\* A->B and A->C are present, B is tombstoned, and (0->1) from [A] returns
\* the row [A,C] alone
C5_Witness ==
    /\ MatchReply
    /\ Tombstoned(inner, "B")
    /\ Residual("A", "B")
    /\ Residual("A", "C")
    /\ reply.sources = <<"A">>
    /\ reply.pattern = <<JsPatternEdge(0, 1, "t", None)>>
    /\ reply.rows = << <<"A", "C">> >>

\* C6: a pattern with an edge from a variable to itself never returns a row.
C6_SelfEdgeNoRow ==
    (MatchReply /\ SelfEdge(reply.pattern)) => reply.rows = << >>

\* a pattern with an edge from a variable to itself was matched from a live
\* start node
C6_Witness ==
    /\ MatchReply
    /\ SelfEdge(reply.pattern)
    /\ \E i \in 1..Len(reply.sources) : Live(inner, reply.sources[i])

UnknownType(G, pat) ==
    \E k \in 1..Len(pat) : get_type_id(G, pat[k].edge_type) = None

KnownStarts(G, starts) == SelectSeq(starts, LAMBDA s : Known(G, s))

\* C7: match_pattern returns no row when a pattern edge names an edge type
\* that was never interned or when no start id resolves; start ids unknown
\* to the interner are ignored; the index is left as it was.
C7_MissingDataIsEmpty ==
    MatchReply =>
        /\ UnknownType(inner, reply.pattern) => reply.rows = << >>
        /\ KnownStarts(inner, reply.sources) = << >> => reply.rows = << >>
        /\ reply.rows = match_pattern(inner, KnownStarts(inner, reply.sources),
                                      reply.pattern, reply.as_of)
        /\ \A n \in 1..Len(reply.rows) :
              /\ reply.rows[n][1] \in Range(reply.sources)
              /\ \A i \in 1..Len(reply.rows[n]) : Known(inner, reply.rows[n][i])
        /\ reply.index = inner

\* a pattern edge of a type that was never interned, matched from a start
\* node that has an edge of an interned type
C7_Witness ==
    /\ MatchReply
    /\ UnknownType(inner, reply.pattern)
    /\ reply.sources = <<"A">>
    /\ HasEdge(inner, "A", "B", "t", None)
    /\ reply.rows = << >>

-----------------------------------------------------------------------------
(* Claims about the Interner *)

\* C8: lookup(intern(s)) = s, lookup_id(s) is that id, and a second
\* intern(s) returns the same id and changes neither len() nor any id.
\* Stated of the call just made and of interning any name next.
C8_InternRoundTrip ==
    /\ ret.op = "intern" =>
          LET s == unwrap(ret.name)
              id == unwrap(ret.id)
              again == InternW(interner, s, bits)
          IN  /\ lookup(interner, id) = Some(s)
              /\ lookup_id(interner, s) = Some(id)
              /\ again.id = id
              /\ len(again.st) = len(interner)
              /\ again.st.map = interner.map
    /\ \A s \in Names :
          LET r == InternW(interner, s, bits)
              again == InternW(r.st, s, bits)
          IN  /\ lookup(r.st, r.id) = Some(s)
              /\ lookup_id(r.st, s) = Some(r.id)
              /\ again.id = r.id
              /\ len(again.st) = len(r.st)
              /\ \A o \in DOMAIN interner.map : r.st.map[o] = interner.map[o]

\* a name interned again after other names were interned
C8_Witness ==
    /\ ret.op = "intern"
    /\ len(interner) >= 2
    /\ Len(hist) > len(interner)
    /\ ret.name = Some(hist[1])

C9_IdsDense ==
    /\ interner.vec = FirstSight(hist)
    /\ DOMAIN interner.map = Range(interner.vec)
    /\ \A i \in 1..Len(interner.vec) : interner.map[interner.vec[i]] = i - 1
    /\ len(interner) = Cardinality(Range(hist))
    /\ \A id \in 0..(MaxInterns + 1) :
          (id >= len(interner)) <=> (lookup(interner, id) = None)
    /\ ret.op = "intern" =>
          /\ unwrap(ret.id) < len(interner)
          /\ lookup(interner, unwrap(ret.id)) = ret.name

C9_IdsStable ==
    /\ len(interner') >= len(interner)
    /\ \A s \in DOMAIN interner.map :
          /\ s \in DOMAIN interner'.map
          /\ interner'.map[s] = interner.map[s]
    /\ \A id \in 0..(len(interner) - 1) :
          lookup(interner', id) = lookup(interner, id)

\* C9: each previously unseen string gets the smallest unused id: the ids
\* are 0..len()-1 in order of first sight, len() is the number of distinct
\* strings interned, lookup of an id >= len() is absent, and no step
\* reassigns an id or decreases len().
C9_DenseIds == [](C9_IdsDense) /\ [][C9_IdsStable]_vars

\* interning "A","B","A" gave 0,1,0 with len 2 and lookup(1) = "B"
C9_Witness ==
    /\ hist = <<"A", "B", "A">>
    /\ ret.op = "intern"
    /\ ret.id = Some(0)
    /\ len(interner) = 2
    /\ lookup(interner, 1) = Some("B")
    /\ lookup_id(interner, "B") = Some(1)

\* C10: with the id domain exhausted, intern never returns an id that
\* belongs to another string, and lookup(intern(s)) = s stays true.
C10_NoWrappedId ==
    /\ ret.op = "intern" => lookup(interner, unwrap(ret.id)) = ret.name
    /\ \A s1, s2 \in DOMAIN interner.map :
          s1 # s2 => interner.map[s1] # interner.map[s2]

\* one more name than there are ids has been interned
C10_Witness ==
    /\ ret.op = "intern"
    /\ len(interner) = 2 ^ bits + 1

-----------------------------------------------------------------------------
(* Claims about the adjacency store *)

\* how many times record r occurs in `list`
Count(list, r) == Cardinality({i \in 1..Len(list) : list[i] = r})

\* the record on the peer's list that mirrors record r of node u's list
Mirror(u, r) == [r EXCEPT !.peer = u]

\* every record of every `from` list occurs as often, mirrored, on its
\* peer's `to` list
Mirrored(from, to) ==
    \A n \in 1..Len(from) : \A i \in 1..Len(from[n]) :
        LET r == from[n][i]
        IN  /\ r.peer + 1 \in 1..Len(to)
            /\ Count(from[n], r) = Count(to[r.peer + 1], Mirror(n - 1, r))

C11_Symmetric ==
    /\ Len(inner.outgoing) = Len(inner.incoming)
    /\ Mirrored(inner.outgoing, inner.incoming)
    /\ Mirrored(inner.incoming, inner.outgoing)

\* the records of `list` with the given peer and type that are not tombstoned
LiveOf(list, peer, type_id) ==
    {i \in 1..Len(list) : /\ list[i].peer = peer /\ list[i].type_id = type_id
                          /\ ~list[i].deleted}

\* a remove_edge step on a known triple leaves no record of it that is not
\* tombstoned, in either direction
C11_RemoveEdgeBoth ==
    \A s, d \in NodeNames :
        (/\ RemoveEdge(s, d, TypeSeq[1], StoreCalls)
         /\ Known(inner, s) /\ Known(inner, d)
         /\ get_type_id(inner, TypeSeq[1]) # None)
        => /\ LiveOf(inner'.outgoing[NodeId(inner, s) + 1], NodeId(inner, d), 0) = {}
           /\ LiveOf(inner'.incoming[NodeId(inner, d) + 1], NodeId(inner, s), 0) = {}

KeyLeq(a, b) ==
    \/ a.type_id < b.type_id
    \/ a.type_id = b.type_id /\ a.peer < b.peer
    \/ a.type_id = b.type_id /\ a.peer = b.peer
          /\ (a.valid_from = b.valid_from \/ OptLess(a.valid_from, b.valid_from))

\* sorted, free of tombstoned records and of records with identical
\* (peer, type_id, valid_from, valid_to)
CompactList(list) ==
    /\ \A i, j \in 1..Len(list) : i < j => KeyLeq(list[i], list[j])
    /\ \A i \in 1..Len(list) : ~list[i].deleted
    /\ \A i, j \in 1..Len(list) :
          i # j => <<list[i].peer, list[i].type_id, list[i].valid_from,
                     list[i].valid_to>>
                   # <<list[j].peer, list[j].type_id, list[j].valid_from,
                       list[j].valid_to>>

Compacted(G) ==
    /\ \A n \in 1..Len(G.outgoing) : CompactList(G.outgoing[n])
    /\ \A n \in 1..Len(G.incoming) : CompactList(G.incoming[n])

\* the source lists a traverse is compared on
SourceLists == {<<n>> : n \in NodeNames} \cup {AllNames}

\* every traverse returns the same nodes, each once, from G and from H (the
\* order of a result is left open by section 4.C)
SameTraversals(G, H) ==
    \A src \in SourceLists, ty \in {None, Some(TypeSeq[1])},
       dir \in {Outgoing, Incoming}, ts \in {None, Some(1500)} :
        LET a == GraphIndex_traverse(G, src, ty, dir, ts)
            b == GraphIndex_traverse(H, src, ty, dir, ts)
        IN  Range(a) = Range(b) /\ Len(a) = Len(b)

\* the index after the same row was ingested twice
IngestedTwice == AddRows(GraphIndexNew, <<StoreRow, StoreRow>>)

\* edge_count is half the number of records held: a logical edge is one
\* Outgoing and one Incoming record
EdgeCountLogical ==
    2 * edge_count(inner) =
        Len(Flatten(inner.outgoing)) + Len(Flatten(inner.incoming))

C12_CompactStep ==
    Compact(StoreCalls) =>
        /\ Compacted(inner')
        /\ SameTraversals(inner, inner')
        /\ inner = IngestedTwice =>
              (edge_count(inner) = 2 /\ edge_count(inner') = 1)

-----------------------------------------------------------------------------
(* Claims about traversal *)

\* the edge types a query's edge_type argument stands for
TypesOf(edge_type) == IF edge_type = None THEN Range(TypeSeq) ELSE edge_type

\* node n is one hop from a source that is not tombstoned, through a
\* record of G that is not tombstoned, has one of the types and whose
\* interval admits ts: valid_from absent or <= ts, valid_to absent or > ts,
\* and any interval when ts is absent
OneHop(G, sources, types, dir, ts, n) ==
    \E s \in Range(sources) : \E ty \in types :
        /\ Live(G, s)
        /\ IF dir = Outgoing THEN HasEdge(G, s, n, ty, ts)
                              ELSE HasEdge(G, n, s, ty, ts)

TemporalIndex == AddRows(GraphIndexNew, TemporalRows)

\* C13: traverse with as-of ts returns exactly the live nodes one hop from
\* a live source through an edge with valid_from absent or <= ts and
\* valid_to absent or > ts; with as-of absent every edge that is not
\* tombstoned counts.  On A->B [1000,2000), A->C [1500,..) from [A]:
\* 1200 gives [B], 1800 gives [B,C], 2500 gives [C], absent gives [B,C].
C13_TraverseAsOf ==
    reply.op = "traverse" =>
        /\ Range(reply.rows) =
              {n \in NodeNames :
                  /\ Live(reply.index, n)
                  /\ OneHop(reply.index, reply.sources, TypesOf(reply.edge_type),
                            ParseDirection(reply.direction), reply.as_of, n)}
        /\ Injective(reply.rows)
        /\ (/\ reply.index = TemporalIndex
            /\ reply.sources = <<"A">>
            /\ ParseDirection(reply.direction) = Outgoing)
           => reply.rows = (IF reply.as_of = Some(1200) THEN <<"B">>
                            ELSE IF reply.as_of = Some(2500) THEN <<"C">>
                            ELSE <<"B", "C">>)

\* the temporal scenario queried at 2500: B's edge has expired
C13_Witness ==
    /\ reply.op = "traverse"
    /\ reply.index = TemporalIndex
    /\ reply.sources = <<"A">>
    /\ reply.edge_type = Some("t")
    /\ reply.direction = None
    /\ reply.as_of = Some(2500)
    /\ reply.rows = <<"C">>

RECURSIVE Composed(_, _, _, _, _, _)
\* traverse applied d times, each time to the result of the time before
Composed(G, names, edge_type, dir, ts, d) ==
    IF d = 0 THEN names
    ELSE Composed(G, GraphIndex_traverse(G, names, edge_type, dir, ts),
                  edge_type, dir, ts, d - 1)

RECURSIVE Layered(_, _, _, _, _, _, _)
\* traverse applied d times, each result losing the nodes in `seen`: the
\* sources and the results of the hops before
Layered(G, names, seen, edge_type, dir, ts, d) ==
    IF d = 0 THEN names
    ELSE LET next == SelectSeq(GraphIndex_traverse(G, names, edge_type, dir, ts),
                               LAMBDA n : n \notin seen)
         IN  Layered(G, next, seen \cup Range(next), edge_type, dir, ts, d - 1)

\* a traverse_recursive reply with min_depth = max_depth
ExactDepth ==
    /\ reply.op = "traverse_recursive"
    /\ reply.min_depth # None
    /\ reply.min_depth = reply.max_depth

-----------------------------------------------------------------------------
(* Claims about snapshots *)

\* the last mutating call was a load_snapshot of the file save_snapshot
\* wrote, and it succeeded
JustLoaded ==
    /\ result.op = "load_snapshot"
    /\ result.err = None
    /\ result.path = Some("snap")
    /\ result.at = calls

\* G and H give the same node ids, edge-type ids and deletion flags
SameIds(G, H) ==
    /\ \A n \in NodeNames : index_lookup_id(G, n) = index_lookup_id(H, n)
    /\ \A id \in 0..MaxNodes :
          /\ lookup_str(G, id) = lookup_str(H, id)
          /\ is_node_deleted(G, id) = is_node_deleted(H, id)
    /\ \A ty \in Range(TypeSeq) : get_type_id(G, ty) = get_type_id(H, ty)

\* G and H answer every query alike
SameAnswers(G, H) ==
    /\ node_count(G) = node_count(H)
    /\ edge_count(G) = edge_count(H)
    /\ \A src \in SourceLists, ty \in {None, Some(TypeSeq[1])},
          dir \in {Outgoing, Incoming}, ts \in {None, Some(1500)} :
          /\ GraphIndex_traverse(G, src, ty, dir, ts)
                = GraphIndex_traverse(H, src, ty, dir, ts)
          /\ GraphIndex_traverse_recursive(G, src, ty, dir, 1, 2, ts)
                = GraphIndex_traverse_recursive(H, src, ty, dir, 1, 2, ts)
    /\ \A pat \in {<<JsPatternEdge(0, 1, TypeSeq[1], None)>>, Triangle} :
          match_pattern(G, AllNames, pat, None) = match_pattern(H, AllNames, pat, None)

C19_LoadAllOrNothing ==
    \A path \in LoadPaths :
        LoadSnapshot(path, StoreCalls) =>
            /\ result'.op = "load_snapshot"
            /\ result'.err # None => inner' = inner
            /\ result'.err = None =>
                  (FileAt(path) # None /\ inner' = load_from_file(FileAt(path)).g)
            /\ (result'.err = None) <=> (load_from_file(FileAt(path)).err = None)

C19_LoadIsAllOrNothing == [][C19_LoadAllOrNothing]_vars

\* a load_snapshot failed on an index that holds an edge, which is still
\* there
C19_Witness ==
    /\ result.op = "load_snapshot"
    /\ result.err # None
    /\ result.at = calls
    /\ edge_count(inner) > 0

-----------------------------------------------------------------------------
(* Claims about the frames of backtrack *)

\* the nodes the assignment binds
BoundNodes == {unwrap(m_assignment[i]) : i \in {j \in 1..Len(m_assignment) :
                                                 m_assignment[j] # None}}

\* backtrack was just entered for variable k: exactly the variables
\* 0..k-1 are bound, and used_nodes is the set of their nodes
EntryDiscipline ==
    \A n \in 1..Len(frames) :
        frames[n].state = "Unbound" =>
            /\ \A i \in 1..Len(m_assignment) :
                  (m_assignment[i] # None) <=> (i <= frames[n].var)
            /\ m_used_nodes = BoundNodes
            /\ Cardinality(BoundNodes) = frames[n].var

\* after find_matches has returned every variable is unbound and
\* used_nodes is empty
CleanOnReturn ==
    m_pc = "returned" =>
        /\ \A i \in 1..Len(m_assignment) : m_assignment[i] = None
        /\ m_used_nodes = {}

\* the step returns from a call of backtrack
Returns == Len(frames') < Len(frames)

\* a frame that returns leaves assignment and used_nodes as it found them
RestoredOnReturn ==
    Returns => /\ m_assignment' = Top.entry_assignment
               /\ m_used_nodes' = Top.entry_used

\* the moves of the state machine of section 4.D
ChainMoves ==
    {<<"Unbound", "Candidates-computed">>, <<"Candidates-computed", "Iterating">>,
     <<"Iterating", "Bound">>, <<"Bound", "Backtracked">>}

\* every frame that is on the stack before and after the step keeps its
\* state or makes one of `moves`, and a new frame starts Unbound
FramesMove(moves) ==
    /\ \A n \in 1..Len(frames) :
          n <= Len(frames') =>
              \/ frames'[n].state = frames[n].state
              \/ <<frames[n].state, frames'[n].state>> \in moves
    /\ \A n \in 1..Len(frames') : n > Len(frames) => frames'[n].state = "Unbound"

\* C16, as claimed: on entry of backtrack for variable k exactly 0..k-1
\* are bound and used_nodes is the set of their nodes; a frame moves only
\* Unbound -> Candidates-computed -> Iterating -> Bound -> Backtracked; a
\* frame that returns has restored assignment and used_nodes; after
\* find_matches all is unbound and used_nodes is empty.
C16_ChainOnly ==
    /\ [](EntryDiscipline /\ CleanOnReturn)
    /\ [][RestoredOnReturn /\ FramesMove(ChainMoves)]_vars

\* C16, amended: as claimed, with one more move: after Backtracked a frame
\* is Iterating again, for its next candidate.
C16_FrameDiscipline ==
    /\ [](EntryDiscipline /\ CleanOnReturn)
    /\ [][RestoredOnReturn
           /\ FramesMove(ChainMoves \cup {<<"Backtracked", "Iterating">>})]_vars

\* find_matches has returned two rows that start at the same node: the
\* frame of variable 1 bound a second candidate after the first
C16_Witness ==
    /\ m_pc = "returned"
    /\ \E i, j \in 1..Len(m_results) :
          /\ i # j
          /\ m_results[i][1] = m_results[j][1]
          /\ m_results[i] # m_results[j]

\* the rows of the stepwise find_matches are those of the operator
StepwiseAgrees ==
    m_pc = "returned" =>
        m_results = find_matches(inner, m_pattern, num_vars, m_start_candidates)

-----------------------------------------------------------------------------
(* Claims about the rows of a match *)

\* C17: the rows match_pattern returns are pairwise distinct, also when
\* start_ids names a node twice or the index holds several records for one
\* (source, target, type).
C17_RowsDistinct == MatchReply => Injective(reply.rows)

\* a match whose start_ids name a live node twice, from which the pattern
\* has a match
C17_Witness ==
    /\ MatchReply
    /\ reply.sources = <<"A", "A">>
    /\ Live(inner, "A")
    /\ reply.rows # << >>

\* C18: for a pattern in which some variable i > 0, up to the largest
\* index used, has no edge to a variable j < i, match_pattern returns no
\* row, whatever the graph and the starts; and every row any pattern
\* returns binds every variable.
C18_UnconnectedNoRows ==
    MatchReply =>
        /\ ~Connected(reply.pattern) => reply.rows = << >>
        /\ \A n \in 1..Len(reply.rows) :
              Len(reply.rows[n]) = TopVar(reply.pattern) + 1

\* the pattern (0->2, t), whose variable 1 no edge mentions, matched from A
\* on a graph with A->B and A->C
C18_Witness ==
    /\ MatchReply
    /\ reply.pattern = <<JsPatternEdge(0, 2, "t", None)>>
    /\ reply.sources = <<"A">>
    /\ Live(inner, "A") /\ Live(inner, "B") /\ Live(inner, "C")
    /\ HasEdge(inner, "A", "B", "t", None)
    /\ HasEdge(inner, "A", "C", "t", None)
    /\ reply.rows = << >>

=============================================================================
